---------------------------- MODULE Spec2Model ----------------------------
(***************************************************************************)
(* Model of contextualbandits/evaluation.py: the off-policy evaluators     *)
(* evaluateRejectionSampling, evaluateDoublyRobust, evaluateFullyLabeled,  *)
(* evaluateDoublyRobustSimplified and evaluateNCIS.                        *)
(*                                                                         *)
(* Arrays are sequences; Python row index i is element i+1.  Real numbers  *)
(* are exact rationals [nan, num, den]; floating-point rounding is not     *)
(* modelled.  The policy is an opaque collaborator: its predictions are    *)
(* chosen nondeterministically and every call made on it is appended to    *)
(* policy_log.                                                             *)
(***************************************************************************)
EXTENDS Integers, Sequences, FiniteSets, TLC

\* ------------------------------------------------------------------ bounds
MaxRows == 3        \* largest dataset of the rejection-sampling evaluator
MaxRowsEst == 2     \* largest dataset of the propensity-based estimators

Arms == {0, 1}
Rewards == {0, 1}
Seeds == {1, 2}
DefaultSeed == 1    \* random_state=1, the default of every evaluator
UpdateFreqs == {1, 2}

\* --------------------------------------------------------------- rationals
Rat(n, d) == [nan |-> FALSE, num |-> n, den |-> d]
NaN == [nan |-> TRUE, num |-> 0, den |-> 1]
Int2Rat(n) == Rat(n, 1)
RatAdd(x, y) == Rat(x.num * y.den + y.num * x.den, x.den * y.den)
RatSub(x, y) == Rat(x.num * y.den - y.num * x.den, x.den * y.den)
RatMul(x, y) == Rat(x.num * y.num, x.den * y.den)
RatDiv(x, y) == IF y.num > 0 THEN Rat(x.num * y.den, x.den * y.num)
                ELSE Rat(-(x.num * y.den), x.den * (-y.num))
RatEq(x, y) == /\ x.nan = y.nan
               /\ (~x.nan => x.num * y.den = y.num * x.den)
RatLe(x, y) == x.num * y.den <= y.num * x.den
RatLt(x, y) == x.num * y.den < y.num * x.den
RatMax(x, y) == IF RatLe(x, y) THEN y ELSE x

RECURSIVE SumSeq(_)
SumSeq(s) == IF Len(s) = 0 THEN 0 ELSE s[1] + SumSeq(Tail(s))

RECURSIVE RatSum(_)
RatSum(s) == IF Len(s) = 0 THEN Int2Rat(0) ELSE RatAdd(s[1], RatSum(Tail(s)))

\* np.mean of an integer array: NaN (with a warning) on an empty array
MeanInt(s) == IF Len(s) = 0 THEN NaN ELSE Rat(SumSeq(s), Len(s))
\* np.mean of a float array
MeanRat(s) == IF Len(s) = 0 THEN NaN ELSE RatDiv(RatSum(s), Int2Rat(Len(s)))

\* arr[mask]: boolean-mask indexing keeps the elements whose mask is True
RECURSIVE BoolIndex(_, _)
BoolIndex(arr, mask) ==
    IF Len(arr) = 0 THEN <<>>
    ELSE (IF mask[1] THEN <<arr[1]>> ELSE <<>>)
             \o BoolIndex(Tail(arr), Tail(mask))

CountTrue(mask) == Len(BoolIndex(mask, mask))

\* --------------------------------------------------------- random numbers
\* _check_random_state(int) builds a fresh generator from the seed, so every
\* draw is a function of the seed and of the draw's position in the stream.
RandIntegers(seed, n) == (seed * 5 + 1) % n
\* k-th element of the draw-th array drawn by rs.beta(a, b, size=...): a
\* value strictly between 0 and 1
BetaDraw(seed, draw, k) == Rat(1 + ((seed + draw + k) % 3), 4)

\* an optional float argument (None or a value)
None == [given |-> FALSE, val |-> Int2Rat(0)]
Some(x) == [given |-> TRUE, val |-> x]

\* ------------------------------------------------------------------ state
VARIABLES
    pc,                  \* position of the program
    rs_args,             \* arguments of evaluateRejectionSampling
    start_point_online,  \* the resolved start index
    i,                   \* loop variable of the two traversal loops
    cum_r, cum_n,        \* accumulated reward and number of accepted rows
    ix_chosen,           \* indices of the accepted rows, in order
    policy_log,          \* every call made on the policy, in order
    rs_result,           \* what evaluateRejectionSampling returned or raised
    dr_args,             \* arguments of evaluateDoublyRobust
    reward_estimator,    \* the caller's n-by-2 matrix [rhat_new, rhat_old]
    p_used,              \* p after lines 236-239 of the latest call
    dr_results,          \* the value returned by each call, in order
    is_args,             \* arguments of evaluateDoublyRobustSimplified/NCIS
    w, take,             \* importance weights and the mask of kept rows
    is_result,           \* what the importance-sampling evaluator did
    fl_args,             \* arguments of evaluateFullyLabeled
    fl_result            \* what evaluateFullyLabeled returned or raised

vars == <<pc, rs_args, start_point_online, i, cum_r, cum_n, ix_chosen,
          policy_log, rs_result, dr_args, reward_estimator, p_used,
          dr_results, is_args, w, take, is_result, fl_args, fl_result>>

rs_vars == <<rs_args, start_point_online, i, cum_r, cum_n, ix_chosen,
             policy_log, rs_result>>
dr_vars == <<dr_args, reward_estimator, p_used, dr_results>>
is_vars == <<is_args, w, take, is_result>>
fl_vars == <<fl_args, fl_result>>

NoResult == [kind |-> "none"]
Raise(e) == [kind |-> "raise", error |-> e]

Init ==
    /\ pc = "idle"
    /\ rs_args = [n |-> 0]
    /\ start_point_online = 0
    /\ i = 0
    /\ cum_r = 0
    /\ cum_n = 0
    /\ ix_chosen = <<>>
    /\ policy_log = <<>>
    /\ rs_result = NoResult
    /\ dr_args = [n |-> 0]
    /\ reward_estimator = <<>>
    /\ p_used = <<>>
    /\ dr_results = <<>>
    /\ is_args = [n |-> 0]
    /\ w = <<>>
    /\ take = <<>>
    /\ is_result = NoResult
    /\ fl_args = [n |-> 0]
    /\ fl_result = NoResult

\* ------------------------------------------- evaluateRejectionSampling
\* the values a caller may pass as start_point_online for n rows
StartArgs(n) ==
    {[type |-> "random", val |-> 0], [type |-> "float", val |-> 0],
     [type |-> "other", val |-> 0]}
        \cup {[type |-> "int", val |-> v] : v \in -1 .. n + 1}

\* lines 59-68: 'random', int and float pass; anything else is rejected
StartPointAccepted(sp) == sp.type \in {"random", "int", "float"}

MatchMaskInverted(pred, a) == [k \in 1 .. Len(a) |-> pred[k] /= a[k]]

\* pred == a
MatchMask(pred, a) == [k \in 1 .. Len(a) |-> pred[k] = a[k]]

\* X[i], a[i], r[i] with a Python index: negative indices count from the end
IndexInBounds(ix, n) == ix >= -n /\ ix < n
RowOf(ix, n) == IF ix < 0 THEN ix + n ELSE ix

\* for i in range(start_point_online, X.shape[0])
InFirstRange(ix, n) == ix < n
InSecondRangeInclusive(ix, start) == ix <= start

\* for i in range(0, start_point_online)
InSecondRange(ix, start) == ix < start

\* (cum_n % update_freq) == 0
RefitDue(n_acc, update_freq) == (n_acc % update_freq) = 0

LastBatchOneMore(chosen, update_freq) ==
    LET len == Len(chosen)
        stop == IF len - (update_freq + 2) < 0 THEN -1
                ELSE len - (update_freq + 2)
    IN [k \in 1 .. (len - 1 - stop) |-> chosen[len - k + 1]]

\* ix_chosen[:-(update_freq+1):-1]: from the last element backwards, stopping
\* before index -(update_freq+1)
LastBatch(chosen, update_freq) ==
    LET len == Len(chosen)
        stop == IF len - (update_freq + 1) < 0 THEN -1
                ELSE len - (update_freq + 1)
    IN [k \in 1 .. (len - 1 - stop) |-> chosen[len - k + 1]]

\* the rows handed to the policy at a refit
RefitCall(chosen, partial_fit, update_freq, n) ==
    IF ~partial_fit
    THEN [op |-> "fit",
          rows |-> [k \in 1 .. Len(chosen) |-> RowOf(chosen[k], n)]]
    ELSE LET ix_fit == LastBatch(chosen, update_freq)
         IN [op |-> "partial_fit",
             rows |-> [k \in 1 .. Len(ix_fit) |-> RowOf(ix_fit[k], n)]]

evaluateRejectionSampling ==
    /\ pc = "idle"
    /\ \E n \in 1 .. MaxRows :
       \E a \in [1 .. n -> Arms], r \in [1 .. n -> Rewards],
          online \in BOOLEAN, partial_fit \in BOOLEAN,
          sp \in StartArgs(n), update_freq \in UpdateFreqs :
       \E seed \in (IF sp.type = "random" THEN Seeds ELSE {DefaultSeed}) :
         LET start == IF sp.type = "random" THEN RandIntegers(seed, n)
                      ELSE sp.val
         IN
         /\ rs_args' = [n |-> n, a |-> a, r |-> r, online |-> online,
                        partial_fit |-> partial_fit, start |-> sp,
                        random_state |-> seed, update_freq |-> update_freq]
         /\ start_point_online' = start
         /\ IF ~StartPointAccepted(sp)
            THEN /\ pc' = "rs_done"
                 /\ rs_result' = Raise("ValueError: start_point_online")
                 /\ UNCHANGED <<i, policy_log>>
            ELSE IF ~online
            THEN \E pred \in [1 .. n -> Arms] :
                   LET match == MatchMask(pred, a)
                   IN /\ pc' = "rs_done"
                      /\ policy_log' = <<[op |-> "predict_all", pred |-> pred]>>
                      /\ rs_result' = [kind |-> "return",
                                       mean |-> MeanInt(BoolIndex(r, match)),
                                       count |-> CountTrue(match)]
                      /\ UNCHANGED i
            ELSE IF sp.type = "float"
            THEN /\ pc' = "rs_done"
                 /\ policy_log' = <<[op |-> "fit", rows |-> <<>>]>>
                 /\ rs_result' = Raise("TypeError: range")
                 /\ UNCHANGED i
            ELSE /\ pc' = "rs_loop1"
                 /\ policy_log' = <<[op |-> "fit", rows |-> <<>>]>>
                 /\ i' = start
                 /\ rs_result' = NoResult
    /\ UNCHANGED <<cum_r, cum_n, ix_chosen>>
    /\ UNCHANGED <<dr_vars, is_vars, fl_vars>>

\* the body of both traversal loops (lines 83-95 and 97-109) for index ix:
\* predict the row, and on a match accumulate, record and refit when due
LoopBody(ix) ==
    LET n == rs_args.n
        row == RowOf(ix, n)
    IN \E would_choose \in Arms :
         LET seen == [op |-> "predict", row |-> row, pred |-> would_choose]
         IN IF would_choose = rs_args.a[row + 1]
            THEN LET chosen == Append(ix_chosen, ix)
                 IN /\ cum_r' = cum_r + rs_args.r[row + 1]
                    /\ cum_n' = cum_n + 1
                    /\ ix_chosen' = chosen
                    /\ policy_log' =
                          IF RefitDue(cum_n + 1, rs_args.update_freq)
                          THEN policy_log \o
                                 <<seen, RefitCall(chosen, rs_args.partial_fit,
                                                   rs_args.update_freq, n)>>
                          ELSE Append(policy_log, seen)
            ELSE /\ policy_log' = Append(policy_log, seen)
                 /\ UNCHANGED <<cum_r, cum_n, ix_chosen>>

\* one iteration of: for i in range(start_point_online, X.shape[0])
FirstLoopStep ==
    /\ pc = "rs_loop1"
    /\ InFirstRange(i, rs_args.n)
    /\ IF IndexInBounds(i, rs_args.n)
       THEN /\ LoopBody(i)
            /\ i' = i + 1
            /\ UNCHANGED <<pc, rs_result>>
       ELSE /\ pc' = "rs_done"
            /\ rs_result' = Raise("IndexError")
            /\ UNCHANGED <<i, cum_r, cum_n, ix_chosen, policy_log>>
    /\ UNCHANGED <<rs_args, start_point_online>>
    /\ UNCHANGED <<dr_vars, is_vars, fl_vars>>

\* the first loop is exhausted; the second starts at 0
FirstLoopExit ==
    /\ pc = "rs_loop1"
    /\ ~InFirstRange(i, rs_args.n)
    /\ pc' = "rs_loop2"
    /\ i' = 0
    /\ UNCHANGED <<rs_args, start_point_online, cum_r, cum_n, ix_chosen,
                   policy_log, rs_result>>
    /\ UNCHANGED <<dr_vars, is_vars, fl_vars>>

\* one iteration of: for i in range(0, start_point_online)
SecondLoopStep ==
    /\ pc = "rs_loop2"
    /\ InSecondRange(i, start_point_online)
    /\ IF IndexInBounds(i, rs_args.n)
       THEN /\ LoopBody(i)
            /\ i' = i + 1
            /\ UNCHANGED <<pc, rs_result>>
       ELSE /\ pc' = "rs_done"
            /\ rs_result' = Raise("IndexError")
            /\ UNCHANGED <<i, cum_r, cum_n, ix_chosen, policy_log>>
    /\ UNCHANGED <<rs_args, start_point_online>>
    /\ UNCHANGED <<dr_vars, is_vars, fl_vars>>

OnlineResultUnchecked(sum_r, n_acc) ==
    [kind |-> "return",
     mean |-> IF n_acc = 0 THEN NaN ELSE Rat(sum_r, n_acc),
     count |-> n_acc]

\* lines 110-112: raise when cum_n is 0, else return (cum_r/cum_n, cum_n)
OnlineResult(sum_r, n_acc) ==
    IF n_acc = 0
    THEN Raise("ValueError: no matching samples")
    ELSE [kind |-> "return", mean |-> Rat(sum_r, n_acc), count |-> n_acc]

\* lines 110-112: raise when nothing was accepted, else return the mean
RejectionSamplingReturn ==
    /\ pc = "rs_loop2"
    /\ ~InSecondRange(i, start_point_online)
    /\ pc' = "rs_done"
    /\ rs_result' = OnlineResult(cum_r, cum_n)
    /\ UNCHANGED <<rs_args, start_point_online, i, cum_r, cum_n, ix_chosen,
                   policy_log>>
    /\ UNCHANGED <<dr_vars, is_vars, fl_vars>>

\* ------------------------------------------------ evaluateDoublyRobust
Preds == {0}
PValues == {Rat(1, 8), Rat(1, 1)}
RhatRows == {<<Int2Rat(0), Int2Rat(0)>>, <<Int2Rat(1), Rat(1, 2)>>,
             <<Rat(1, 2), Rat(1, 4)>>}
CValues == {None, Some(Int2Rat(2))}
PminValues == {None, Some(Rat(1, 2))}

Column(matrix, j) == [k \in 1 .. Len(matrix) |-> matrix[k][j]]

\* lines 231-232 (column 0, draws 1 and 2) and 233-234 (column 1, draws 3
\* and 4): estimates equal to 1 get a Beta(3,1) draw, those equal to 0 a
\* Beta(1,3) draw
ImputeInvalid(col, seed, first_draw) ==
    [k \in 1 .. Len(col) |->
        IF RatEq(col[k], Int2Rat(1)) THEN BetaDraw(seed, first_draw, k)
        ELSE IF RatEq(col[k], Int2Rat(0))
             THEN BetaDraw(seed, first_draw + 1, k)
             ELSE col[k]]

PropensityClippedFirst(p, c, pmin) ==
    LET clipped == IF pmin.given
                   THEN [k \in 1 .. Len(p) |-> RatMax(p[k], pmin.val)]
                   ELSE p
    IN IF c.given THEN [k \in 1 .. Len(p) |-> RatMul(c.val, clipped[k])]
       ELSE clipped

\* lines 236-239: p = c*p, then p = np.clip(p, a_min=pmin, a_max=None)
PropensityUsed(p, c, pmin) ==
    LET scaled == IF c.given THEN [k \in 1 .. Len(p) |-> RatMul(c.val, p[k])]
                  ELSE p
    IN IF pmin.given
       THEN [k \in 1 .. Len(p) |-> RatMax(scaled[k], pmin.val)]
       ELSE scaled

AddCorrectionEverywhere(out, rhat_old, r, p, match) ==
    [k \in 1 .. Len(out) |->
        RatAdd(out[k], RatDiv(RatSub(Int2Rat(r[k]), rhat_old[k]), p[k]))]

\* line 243: out[actions_matching] += (r - rhat_old) / p on the matching rows
AddCorrection(out, rhat_old, r, p, match) ==
    [k \in 1 .. Len(out) |->
        IF match[k]
        THEN RatAdd(out[k], RatDiv(RatSub(Int2Rat(r[k]), rhat_old[k]), p[k]))
        ELSE out[k]]

\* lines 230-234 on the matrix the caller holds: rhat_new and rhat_old are
\* views of its columns, so the imputed values are written into it
ImputedMatrix(matrix, handle_invalid, seed) ==
    IF handle_invalid
    THEN LET new == ImputeInvalid(Column(matrix, 1), seed, 1)
             old == ImputeInvalid(Column(matrix, 2), seed, 3)
         IN [k \in 1 .. Len(matrix) |-> <<new[k], old[k]>>]
    ELSE matrix

\* lines 241-243 on the matrix the caller holds: out is rhat_new, the view of
\* column 0, so the corrected values are written into it
CorrectedMatrix(matrix, pred, a, r, p) ==
    LET out == AddCorrection(Column(matrix, 1), Column(matrix, 2), r, p,
                             MatchMask(pred, a))
    IN [k \in 1 .. Len(matrix) |-> <<out[k], matrix[k][2]>>]

MatrixCopiedFirst(args, matrix) == matrix

\* lines 230-245 of one call, given the matrix as the caller holds it now
MatrixAfterCall(args, matrix) ==
    CorrectedMatrix(
        ImputedMatrix(matrix, args.handle_invalid, args.random_state),
        args.pred, args.a, args.r,
        PropensityUsed(args.p, args.c, args.pmin))

\* the arguments a caller may pass, reward_estimator being a matrix
DoublyRobustArgs ==
    UNION {[n : {n}, pred : [1 .. n -> Preds], a : [1 .. n -> Arms],
            r : [1 .. n -> Rewards], p : [1 .. n -> PValues],
            matrix : [1 .. n -> RhatRows], c : CValues, pmin : PminValues,
            handle_invalid : BOOLEAN, random_state : Seeds]
           : n \in 1 .. MaxRowsEst}

evaluateDoublyRobust ==
    /\ pc = "idle"
    /\ \E args \in DoublyRobustArgs :
         /\ args.handle_invalid \/ args.random_state = DefaultSeed
         /\ dr_args' = args
         /\ reward_estimator' = MatrixAfterCall(args, args.matrix)
         /\ p_used' = PropensityUsed(args.p, args.c, args.pmin)
         \* line 245: return np.mean(out)
         /\ dr_results' = <<MeanRat(Column(reward_estimator', 1))>>
    /\ pc' = "dr_done"
    /\ UNCHANGED <<rs_vars, is_vars, fl_vars>>

\* the caller calls again with the very same argument objects
evaluateDoublyRobustAgain ==
    /\ pc = "dr_done"
    /\ Len(dr_results) = 1
    /\ reward_estimator' = MatrixAfterCall(dr_args, reward_estimator)
    /\ p_used' = PropensityUsed(dr_args.p, dr_args.c, dr_args.pmin)
    /\ dr_results' = Append(dr_results, MeanRat(Column(reward_estimator', 1)))
    /\ UNCHANGED <<pc, dr_args>>
    /\ UNCHANGED <<rs_vars, is_vars, fl_vars>>

\* ------------------- evaluateDoublyRobustSimplified and evaluateNCIS
EstValues == {Rat(1, 4), Int2Rat(1), Int2Rat(2)}
ScoreValues == {Rat(1, 2), Int2Rat(1)}
CminValues == {Rat(1, 2), Int2Rat(1)}
CmaxValues == {Int2Rat(1), Int2Rat(2)}

\* w[take], r[take]: indexing with a boolean mask of the array's own shape
\* gives a flat array, whatever the shape of the array: one axis
MaskedNdim == 1

\* w = np.clip(est / p, a_min=cmin, a_max=None)
Weights(est, p, cmin) ==
    [k \in 1 .. Len(est) |-> RatMax(RatDiv(est[k], p[k]), cmin)]

TakeStrict(weights, cmax) ==
    [k \in 1 .. Len(weights) |-> RatLt(weights[k], cmax)]

\* take = w <= cmax
Take(weights, cmax) == [k \in 1 .. Len(weights) |-> RatLe(weights[k], cmax)]

\* (r[take] - p[take]) * w[take] + est[take]
SimplifiedTerms(r, p, weights, est) ==
    [k \in 1 .. Len(r) |->
        RatAdd(RatMul(RatSub(Int2Rat(r[k]), p[k]), weights[k]), est[k])]

\* np.einsum("ij,ij->i", x, y): both operands need two axes, and the result
\* has one entry per row; an operand with fewer axes than subscripts is
\* rejected
EinsumRowDot(x, y, ndim) ==
    IF ndim < 2
    THEN Raise("ValueError: einsum subscripts")
    ELSE [kind |-> "return_array",
          value |-> [k \in 1 .. Len(x) |-> RatMul(x[k], Int2Rat(y[k]))]]

\* line 496: the einsum result divided by np.sum(w[take])
NCISValue(w_kept, r_kept, ndim) ==
    LET dot == EinsumRowDot(w_kept, r_kept, ndim)
    IN IF dot.kind = "raise" THEN dot
       ELSE [kind |-> "return_array",
             value |-> [k \in 1 .. Len(dot.value) |->
                           RatDiv(dot.value[k], RatSum(w_kept))]]

\* lines 415-419 / 486-490: the arguments a caller may pass
ImportanceSamplingArgs ==
    UNION {[n : {n}, est : [1 .. n -> EstValues], r : [1 .. n -> Rewards],
            p : [1 .. n -> ScoreValues], cmin : CminValues,
            cmax : CmaxValues] : n \in 1 .. MaxRowsEst}

evaluateDoublyRobustSimplified ==
    /\ pc = "idle"
    /\ \E args \in ImportanceSamplingArgs :
         LET weights == Weights(args.est, args.p, args.cmin)
             mask == Take(weights, args.cmax)
         IN /\ is_args' = args @@
                              [which |-> "DoublyRobustSimplified"]
            /\ w' = weights
            /\ take' = mask
            /\ is_result' =
                  IF CountTrue(mask) = 0
                  THEN Raise("ValueError: No cases below maximum 'c'.")
                  ELSE [kind |-> "return",
                        value |-> MeanRat(BoolIndex(
                            SimplifiedTerms(args.r, args.p, weights, args.est),
                            mask))]
    /\ pc' = "is_done"
    /\ UNCHANGED <<rs_vars, dr_vars, fl_vars>>

evaluateNCIS ==
    /\ pc = "idle"
    /\ \E args \in ImportanceSamplingArgs :
         LET weights == Weights(args.est, args.p, args.cmin)
             mask == Take(weights, args.cmax)
         IN /\ is_args' = args @@
                              [which |-> "NCIS"]
            /\ w' = weights
            /\ take' = mask
            /\ is_result' =
                  IF CountTrue(mask) = 0
                  THEN Raise("ValueError: No cases below maximum 'c'.")
                  ELSE NCISValue(BoolIndex(weights, mask),
                                 BoolIndex(args.r, mask), MaskedNdim)
    /\ pc' = "is_done"
    /\ UNCHANGED <<rs_vars, dr_vars, fl_vars>>

\* ------------------------------------------------ evaluateFullyLabeled
\* update_freq as the caller passes it: an int batch size, or a bool
UpdateFreqArgs == {[type |-> "int", val |-> v] : v \in 1 .. MaxRowsEst}
                      \cup {[type |-> "bool", val |-> 0],
                            [type |-> "bool", val |-> 1]}

\* lines 289-292: the assertions on update_freq and on the shapes
FullyLabeledAsserts(n_x, n_y, update_freq) ==
    /\ update_freq.type = "bool"
    /\ n_x > update_freq.val
    /\ n_x = n_y
    /\ n_x > 0

\* line 317 reads the names features and batch_size, which nothing defines
LoopNamesDefined == FALSE

evaluateFullyLabeled ==
    /\ pc = "idle"
    /\ \E n_x \in 1 .. MaxRowsEst + 1, n_y \in 1 .. MaxRowsEst + 1,
          update_freq \in UpdateFreqArgs, online \in BOOLEAN,
          shuffle \in BOOLEAN, seed \in Seeds :
         /\ fl_args' = [n |-> n_x, n_y |-> n_y, update_freq |-> update_freq,
                        online |-> online, shuffle |-> shuffle,
                        random_state |-> seed]
         /\ IF ~FullyLabeledAsserts(n_x, n_y, update_freq)
            THEN /\ fl_result' = Raise("AssertionError")
                 /\ UNCHANGED policy_log
            ELSE \* lines 307-314: the seed batch is fitted, then line 317
                 /\ policy_log' =
                       <<[op |-> IF online THEN "partial_fit" ELSE "fit",
                          rows |-> [k \in 1 .. update_freq.val |-> k - 1]]>>
                 /\ fl_result' = IF LoopNamesDefined
                                 THEN [kind |-> "return", value |-> <<>>]
                                 ELSE Raise("NameError: features")
    /\ pc' = "fl_done"
    /\ UNCHANGED <<rs_args, start_point_online, i, cum_r, cum_n, ix_chosen,
                   rs_result>>
    /\ UNCHANGED <<dr_vars, is_vars>>

Next ==
    \/ evaluateRejectionSampling
    \/ FirstLoopStep
    \/ FirstLoopExit
    \/ SecondLoopStep
    \/ RejectionSamplingReturn
    \/ evaluateDoublyRobust
    \/ evaluateDoublyRobustAgain
    \/ evaluateDoublyRobustSimplified
    \/ evaluateNCIS
    \/ evaluateFullyLabeled

Spec == Init /\ [][Next]_vars

\* ===================================================================
\* Properties
\* ===================================================================
RECURSIVE RatSumOver(_, _)
RatSumOver(f, S) ==
    IF S = {} THEN Int2Rat(0)
    ELSE LET k == CHOOSE x \in S : TRUE
         IN RatAdd(f[k], RatSumOver(f, S \ {k}))

RECURSIVE IntSumOver(_, _)
IntSumOver(f, S) ==
    IF S = {} THEN 0
    ELSE LET k == CHOOSE x \in S : TRUE
         IN f[k] + IntSumOver(f, S \ {k})

\* ---- evaluateRejectionSampling, online=False
OfflineDone ==
    /\ pc = "rs_done"
    /\ ~rs_args.online
    /\ StartPointAccepted(rs_args.start)

\* the rows (1-based) whose predicted action is the logged action
OfflineMatches ==
    {k \in 1 .. rs_args.n : policy_log[1].pred[k] = rs_args.a[k]}

\* C1: with online=False and at least one row where predict(X)[i] = a[i],
\* the call returns (mean of r over exactly those rows, number of those rows).
C1_OfflineMeanOverMatches ==
    (OfflineDone /\ OfflineMatches /= {}) =>
        /\ rs_result.kind = "return"
        /\ rs_result.count = Cardinality(OfflineMatches)
        /\ ~rs_result.mean.nan
        /\ rs_result.mean.num * Cardinality(OfflineMatches)
              = rs_result.mean.den * IntSumOver(rs_args.r, OfflineMatches)

\* an offline call where some rows match with reward 1, some with reward 0
\* and some do not match
C1_Witness ==
    /\ OfflineDone
    /\ \E k1, k2, k3 \in 1 .. rs_args.n :
         /\ {k1, k2} \subseteq OfflineMatches
         /\ k3 \notin OfflineMatches
         /\ rs_args.r[k1] = 1
         /\ rs_args.r[k2] = 0
         /\ rs_args.r[k3] = 1
    /\ rs_result.kind = "return"
    /\ rs_result.count = 2

\* C2: with online=False and no row where predict(X)[i] = a[i], the call
\* raises the data-insufficiency error and returns nothing.
C2_OfflineRaisesWithoutMatch ==
    (OfflineDone /\ OfflineMatches = {}) => rs_result.kind = "raise"

\* ---- evaluateRejectionSampling, online=True
OnlineStarted ==
    /\ pc \in {"rs_loop1", "rs_loop2", "rs_done"}
    /\ rs_args.online
    /\ rs_args.start.type \in {"random", "int"}

\* the start index lies in the documented range [0, n_samples-1]
DocumentedStart ==
    \/ rs_args.start.type = "random"
    \/ /\ rs_args.start.type = "int"
       /\ rs_args.start.val \in 0 .. rs_args.n - 1

IsPredict(e) == e.op = "predict"
IsAccepted(e) == e.op = "predict" /\ e.pred = rs_args.a[e.row + 1]
IsRefit(e) == e.op \in {"fit", "partial_fit"}

\* how often the policy was asked about a row (0-based)
TimesEvaluated(row) ==
    Cardinality({k \in 1 .. Len(policy_log) :
                    IsPredict(policy_log[k]) /\ policy_log[k].row = row})

\* C3: with online=True and a start index in the documented range (drawn at
\* random or given as an int), no row is evaluated twice during the
\* traversal and at its end every row has been evaluated exactly once; when
\* every prediction was the logged action, every row is accepted exactly
\* once and the returned count is n.
C3_EveryRowOnce ==
    (OnlineStarted /\ DocumentedStart) =>
        /\ start_point_online \in 0 .. rs_args.n - 1
        /\ \A row \in 0 .. rs_args.n - 1 : TimesEvaluated(row) <= 1
        /\ pc = "rs_done" =>
              /\ rs_result.kind /= "raise" \/ cum_n = 0
              /\ \A row \in 0 .. rs_args.n - 1 : TimesEvaluated(row) = 1
              /\ (\A k \in 1 .. Len(policy_log) :
                      IsPredict(policy_log[k]) => IsAccepted(policy_log[k]))
                  => /\ rs_result.kind = "return"
                     /\ rs_result.count = rs_args.n
                     /\ Len(ix_chosen) = rs_args.n
                     /\ \A row \in 0 .. rs_args.n - 1 :
                          Cardinality({k \in 1 .. Len(ix_chosen) :
                                          ix_chosen[k] = row}) = 1

\* a finished traversal of three rows that started in the middle, wrapped
\* around, and accepted every row
C3_Witness ==
    /\ OnlineStarted
    /\ pc = "rs_done"
    /\ rs_args.n >= 3
    /\ rs_args.start.type = "int"
    /\ rs_args.start.val = 1
    /\ rs_result.kind = "return"
    /\ rs_result.count = rs_args.n
    /\ ix_chosen = <<1, 2, 0>>

\* the accepted rows among the first k entries of the log, in order
AcceptedRows(k) ==
    LET acc == SelectSeq(SubSeq(policy_log, 1, k), IsAccepted)
    IN [j \in 1 .. Len(acc) |-> acc[j].row]

Range(seq) == {seq[k] : k \in 1 .. Len(seq)}

\* C10: with online=True the first call on the policy is a fit on an empty
\* slice; afterwards a refit happens exactly when the number of accepted
\* rows becomes a positive multiple of update_freq; it is fit on all rows
\* accepted so far (partial_fit=False) or partial_fit on exactly the last
\* update_freq accepted rows (partial_fit=True), so that, for a start index
\* in the documented range, no row is passed to partial_fit twice.
C10_RefitSchedule ==
    OnlineStarted =>
        /\ Len(policy_log) >= 1
        /\ policy_log[1] = [op |-> "fit", rows |-> <<>>]
        /\ \A k \in 2 .. Len(policy_log) :
             LET e == policy_log[k]
                 acc == AcceptedRows(k - 1)
             IN /\ IsRefit(e) =>
                     /\ IsAccepted(policy_log[k - 1])
                     /\ Len(acc) > 0
                     /\ Len(acc) % rs_args.update_freq = 0
                     /\ e.op = IF rs_args.partial_fit THEN "partial_fit"
                               ELSE "fit"
                     /\ ~rs_args.partial_fit => e.rows = acc
                     /\ rs_args.partial_fit =>
                          /\ Len(e.rows) = rs_args.update_freq
                          /\ Range(e.rows) =
                                {acc[j] : j \in Len(acc) - rs_args.update_freq + 1
                                                  .. Len(acc)}
                /\ (IsAccepted(e) /\ Len(AcceptedRows(k)) % rs_args.update_freq = 0)
                     => /\ k < Len(policy_log)
                        /\ IsRefit(policy_log[k + 1])
        /\ DocumentedStart =>
             \A k1, k2 \in 2 .. Len(policy_log) :
                (/\ k1 < k2
                 /\ policy_log[k1].op = "partial_fit"
                 /\ policy_log[k2].op = "partial_fit")
                => /\ Range(policy_log[k1].rows) \cap Range(policy_log[k2].rows) = {}
                   /\ Cardinality(Range(policy_log[k1].rows)) = Len(policy_log[k1].rows)
                   /\ Cardinality(Range(policy_log[k2].rows)) = Len(policy_log[k2].rows)

\* a finished wrap-around traversal with update_freq 2 and partial_fit: three
\* rows accepted, one partial_fit on the first two of them, made in the
\* second half of the traversal, and none after the third
C10_Witness ==
    /\ OnlineStarted
    /\ pc = "rs_done"
    /\ rs_args.partial_fit
    /\ rs_args.update_freq = 2
    /\ start_point_online = 2
    /\ ix_chosen = <<2, 0, 1>>
    /\ policy_log[4] = [op |-> "partial_fit", rows |-> <<0, 2>>]
    /\ Len(policy_log) = 5

\* the entries of the log where the policy predicted the logged action of
\* the row it was shown
AcceptedVisits == {k \in 1 .. Len(policy_log) : IsAccepted(policy_log[k])}

\* C11: with online=True the call returns (sum of r over the accepted rows /
\* number of accepted rows, number of accepted rows), a row being accepted
\* iff the prediction made when it was visited is its logged action, and
\* raises instead of returning when no row was accepted; the traversal ends
\* otherwise (IndexError) only for an int start index above n_samples, and
\* never for one in the documented range.
C11_OnlineMeanOverAccepted ==
    (OnlineStarted /\ pc = "rs_done") =>
        IF rs_result = Raise("IndexError")
        THEN ~DocumentedStart /\ rs_args.start.val > rs_args.n
        ELSE /\ cum_n = Cardinality(AcceptedVisits)
             /\ AcceptedVisits = {} <=>
                   rs_result = Raise("ValueError: no matching samples")
             /\ AcceptedVisits /= {} =>
                   /\ rs_result.kind = "return"
                   /\ rs_result.count = Cardinality(AcceptedVisits)
                   /\ ~rs_result.mean.nan
                   /\ rs_result.mean.num * Cardinality(AcceptedVisits)
                         = rs_result.mean.den
                             * IntSumOver([k \in 1 .. Len(policy_log) |->
                                              IF IsAccepted(policy_log[k])
                                              THEN rs_args.r[policy_log[k].row + 1]
                                              ELSE 0],
                                          AcceptedVisits)

\* a finished wrap-around traversal of three rows: row 1 accepted with
\* reward 1, row 2 rejected, row 0 accepted with reward 0; returned (1/2, 2)
C11_Witness ==
    /\ OnlineStarted
    /\ pc = "rs_done"
    /\ rs_args.n = 3
    /\ start_point_online = 1
    /\ rs_args.r = <<0, 1, 1>>
    /\ ix_chosen = <<1, 0>>
    /\ TimesEvaluated(2) = 1
    /\ rs_result.kind = "return"
    /\ rs_result.count = 2
    /\ RatEq(rs_result.mean, Rat(1, 2))

\* a traversal in which no prediction was the logged action: the call raises
C11_WitnessNoneAccepted ==
    /\ OnlineStarted
    /\ pc = "rs_done"
    /\ DocumentedStart
    /\ rs_args.n = 3
    /\ AcceptedVisits = {}
    /\ rs_result.kind = "raise"

\* ---- evaluateDoublyRobust
FirstCallDone == pc = "dr_done" /\ Len(dr_results) = 1

DRMatches == {k \in 1 .. dr_args.n : dr_args.pred[k] = dr_args.a[k]}

\* rhat_new[i] + (r[i] - rhat_old[i]) / p[i] on a match, rhat_new[i] alone
\* otherwise, from the matrix as it was passed and the propensities ps
DRRowValues(ps) ==
    [k \in 1 .. dr_args.n |->
        IF k \in DRMatches
        THEN RatAdd(dr_args.matrix[k][1],
                    RatDiv(RatSub(Int2Rat(dr_args.r[k]), dr_args.matrix[k][2]),
                           ps[k]))
        ELSE dr_args.matrix[k][1]]

\* C4: with handle_invalid=False and a precomputed matrix, the call returns
\* the mean over all n rows of rhat_new[i] + (r[i] - rhat_old[i]) / p[i] on
\* the rows with pred[i] = a[i] and of rhat_new[i] on the others, p being the
\* propensity after rescaling and clipping; for an all-zero matrix that is
\* the sum of r[i]/p[i] over the matching rows divided by n.
C4_DoublyRobustMean ==
    (FirstCallDone /\ ~dr_args.handle_invalid) =>
        /\ RatEq(RatMul(dr_results[1], Int2Rat(dr_args.n)),
                 RatSumOver(DRRowValues(p_used), 1 .. dr_args.n))
        /\ (\A k \in 1 .. dr_args.n :
               dr_args.matrix[k] = <<Int2Rat(0), Int2Rat(0)>>)
           => RatEq(RatMul(dr_results[1], Int2Rat(dr_args.n)),
                    RatSumOver([k \in 1 .. dr_args.n |->
                                   RatDiv(Int2Rat(dr_args.r[k]), p_used[k])],
                               DRMatches))
        /\ (~dr_args.c.given /\ ~dr_args.pmin.given) => p_used = dr_args.p

\* a call without imputation on two rows with non-zero estimates, one
\* matching and one not, and propensities left as passed
C4_Witness ==
    /\ FirstCallDone
    /\ ~dr_args.handle_invalid
    /\ ~dr_args.c.given
    /\ ~dr_args.pmin.given
    /\ dr_args.n = 2
    /\ DRMatches = {1}
    /\ dr_args.matrix = <<<<Rat(1, 2), Rat(1, 4)>>, <<Int2Rat(1), Rat(1, 2)>>>>
    /\ dr_args.r = <<0, 1>>
    /\ dr_args.p = <<Rat(1, 8), Int2Rat(1)>>
    /\ RatEq(dr_results[1], Rat(-1, 4))

\* max(c * p[i], pmin), with c and pmin optional
ClaimedPropensity(k) ==
    LET scaled == IF dr_args.c.given THEN RatMul(dr_args.c.val, dr_args.p[k])
                  ELSE dr_args.p[k]
    IN IF dr_args.pmin.given /\ RatLt(scaled, dr_args.pmin.val)
       THEN dr_args.pmin.val
       ELSE scaled

C8_SameSeedSameOutput ==
    (pc = "dr_done" /\ dr_args.handle_invalid /\ Len(dr_results) = 2) =>
        RatEq(dr_results[1], dr_results[2])

\* an estimate that handle_invalid replaces: exactly 0 or exactly 1
Degenerate(x) == RatEq(x, Int2Rat(0)) \/ RatEq(x, Int2Rat(1))
StrictlyInside(x) == RatLt(Int2Rat(0), x) /\ RatLt(x, Int2Rat(1))

\* (r[i] - rhat_old[i]) / p[i] with the rhat_old the matrix holds after the
\* call and the propensity the call used
HeldCorrection(k) ==
    RatDiv(RatSub(Int2Rat(dr_args.r[k]), reward_estimator[k][2]), p_used[k])

\* C12: a call with a precomputed matrix writes into the caller's matrix:
\* afterwards column 0 holds rhat_new[i] + (r[i] - rhat_old[i]) / p[i] on
\* every row with pred[i] = a[i], rhat_new and rhat_old being the passed
\* estimates, or with handle_invalid a value strictly between 0 and 1 in
\* place of each passed 0 or 1 (written into both columns); everything else
\* is left as passed, so the matrix differs from the one passed in as soon
\* as a non-zero correction was added to a passed rhat_new, or a rhat_old
\* or an uncorrected rhat_new was imputed.
C12_MatrixMutatedInPlace ==
    FirstCallDone =>
        /\ \A k \in 1 .. dr_args.n :
             LET passed == dr_args.matrix[k]
                 held == reward_estimator[k]
                 new == IF k \in DRMatches
                        THEN RatSub(held[1], HeldCorrection(k))
                        ELSE held[1]
             IN /\ IF dr_args.handle_invalid /\ Degenerate(passed[2])
                   THEN StrictlyInside(held[2])
                   ELSE held[2] = passed[2]
                /\ IF dr_args.handle_invalid /\ Degenerate(passed[1])
                   THEN StrictlyInside(new)
                   ELSE RatEq(new, passed[1])
                /\ (k \notin DRMatches /\ ~dr_args.handle_invalid)
                      => held = passed
        /\ (\E k \in 1 .. dr_args.n :
               \/ /\ k \in DRMatches
                  /\ ~RatEq(HeldCorrection(k), Int2Rat(0))
                  /\ ~(dr_args.handle_invalid /\ Degenerate(dr_args.matrix[k][1]))
               \/ /\ dr_args.handle_invalid
                  /\ \/ Degenerate(dr_args.matrix[k][2])
                     \/ k \notin DRMatches /\ Degenerate(dr_args.matrix[k][1]))
           => \E k \in 1 .. dr_args.n, j \in 1 .. 2 :
                 ~RatEq(reward_estimator[k][j], dr_args.matrix[k][j])

\* a call without imputation on two rows: the matching row's rhat_new 1/2
\* has become 1/2 + (1 - 1/4) / 1 = 5/4 in the caller's matrix, the other
\* row is as passed
C12_Witness ==
    /\ FirstCallDone
    /\ ~dr_args.handle_invalid
    /\ dr_args.n = 2
    /\ DRMatches = {1}
    /\ dr_args.matrix = <<<<Rat(1, 2), Rat(1, 4)>>, <<Int2Rat(1), Rat(1, 2)>>>>
    /\ dr_args.r[1] = 1
    /\ RatEq(p_used[1], Int2Rat(1))
    /\ RatEq(reward_estimator[1][1], Rat(5, 4))
    /\ reward_estimator[1][2] = Rat(1, 4)
    /\ reward_estimator[2] = dr_args.matrix[2]

\* ---- evaluateDoublyRobustSimplified and evaluateNCIS
ISDone(which) == pc = "is_done" /\ is_args.which = which

\* max(est_i / p_i, cmin)
ClaimedWeight(k) ==
    LET ratio == RatDiv(is_args.est[k], is_args.p[k])
    IN IF RatLt(ratio, is_args.cmin) THEN is_args.cmin ELSE ratio

Kept == {k \in 1 .. is_args.n : ~RatLt(is_args.cmax, ClaimedWeight(k))}

\* C6: in both evaluators a row is discarded exactly when its weight
\* max(est/p, cmin) is strictly greater than cmax; the kept weights are not
\* clipped to cmax; discarded rows add nothing to the simplified estimator's
\* sum or row count; the call fails when every row is discarded, and only
\* then with that error.
C6_DiscardAboveCmax ==
    pc = "is_done" =>
        /\ \A k \in 1 .. is_args.n :
             /\ RatEq(w[k], ClaimedWeight(k))
             /\ take[k] <=> k \in Kept
        /\ Kept = {} <=>
             is_result = Raise("ValueError: No cases below maximum 'c'.")
        /\ (ISDone("DoublyRobustSimplified") /\ Kept /= {}) =>
             /\ is_result.kind = "return"
             /\ RatEq(RatMul(is_result.value, Int2Rat(Cardinality(Kept))),
                      RatSumOver(
                          [k \in 1 .. is_args.n |->
                              RatAdd(RatMul(RatSub(Int2Rat(is_args.r[k]),
                                                   is_args.p[k]),
                                            ClaimedWeight(k)),
                                     is_args.est[k])],
                          Kept))

\* a simplified doubly-robust call on two rows: weight 4 > cmax = 2 is
\* discarded, weight 2 = cmax is kept, and the result is that row's term
C6_Witness ==
    /\ ISDone("DoublyRobustSimplified")
    /\ is_args.n = 2
    /\ is_args.cmax = Int2Rat(2)
    /\ is_args.est = <<Int2Rat(2), Int2Rat(2)>>
    /\ is_args.p = <<Rat(1, 2), Int2Rat(1)>>
    /\ is_args.r = <<1, 1>>
    /\ Kept = {2}
    /\ take = <<FALSE, TRUE>>
    /\ is_result.kind = "return"
    /\ RatEq(is_result.value, Int2Rat(2))

\* C7: with at least one kept row evaluateNCIS returns the single scalar
\* sum(w_i * r_i) / sum(w_i) over the kept rows.
C7_NCISSelfNormalized ==
    (ISDone("NCIS") /\ Kept /= {}) =>
        /\ is_result.kind = "return"
        /\ RatEq(RatMul(is_result.value,
                        RatSumOver([k \in 1 .. is_args.n |-> ClaimedWeight(k)],
                                   Kept)),
                 RatSumOver([k \in 1 .. is_args.n |->
                                RatMul(ClaimedWeight(k), Int2Rat(is_args.r[k]))],
                            Kept))

\* ---- evaluateFullyLabeled
\* C9: given X and y_onehot with the same number of rows and an integer
\* update_freq smaller than that number, evaluateFullyLabeled returns
\* normally (the sequence of running mean rewards).
C9_FullyLabeledReturns ==
    (/\ pc = "fl_done"
     /\ fl_args.n = fl_args.n_y
     /\ fl_args.update_freq.type = "int"
     /\ fl_args.update_freq.val < fl_args.n)
    => fl_result.kind = "return"
=============================================================================
